---- MODULE Spec2Model ----
(***************************************************************************)
(* Model of modules/video_filter/egl_pbuffer.c: the EGL pbuffer offscreen  *)
(* OpenGL provider.  One producer thread calls MakeCurrent, ReleaseCurrent  *)
(* and Swap; consumer threads call picture_context_copy and                *)
(* picture_context_destroy on the picture contexts of the frames Swap has  *)
(* returned.  assert() is modelled as compiled in: a failed assertion      *)
(* aborts the process (aborted = TRUE) and nothing runs afterwards.        *)
(***************************************************************************)
EXTENDS Integers, FiniteSets, Sequences, TLC

\* #define BUFFER_COUNT 4
BUFFER_COUNT == 4

\* Bound of the model: consumers start a copy only while fewer than MaxDups
\* references beyond the first exist or are being made, over all slots.
MaxDups == 1

Slots == 0 .. (BUFFER_COUNT - 1)

\* The consumer threads of the model.
Consumers == {"c1", "c2"}

\* What Open acquires: the memory of sys, the initialized EGL display
\* connection, the pbuffer surface and the EGL context.
Resources == {"sys", "display", "surface", "context"}

Producer == "producer"
NoThread == "none"
\* "No picture context": the value of `output` while Swap has not returned,
\* and of the local `context` outside Swap.
NoFrame == BUFFER_COUNT

VARIABLES
    rc,              \* picture_contexts[i].rc
    buffer_mapping,  \* picture_contexts[i].buffer_mapping != NULL
    mapped,          \* GL: pixelbuffers[i] is in the mapped state
    current_flip,    \* sys->current_flip
    drawFb,          \* GL: slot whose framebuffer is bound as GL_DRAW_FRAMEBUFFER
    current,         \* sys->current
    bound,           \* EGL: the context is bound to the producer thread
    lock,            \* owner of sys->lock
    pc,              \* producer's position
    context,         \* Swap's local `context` (slot index)
    index,           \* UpdateBuffer's local `index`
    output,          \* slot backing the picture last returned by Swap
    aborted,         \* an assert() failed
    cpc,             \* consumer's position
    cslot,           \* slot of the picture context the consumer is working on
    held,            \* references to slot i's picture context owned by consumers
    resources,       \* what Open has acquired and not released: sys, EGL objects
    lastCall,        \* history: outcome of the last MakeCurrent/ReleaseCurrent
    calls,           \* history: Swap calls started while no frame was disposed
    frame1,          \* history: slot backing the frame the first Swap call returned
    rescanned,       \* history: this UpdateBuffer call has waited and rescanned
    stage            \* history: progress of the produce-until-blocked scenario

poolVars == <<rc, buffer_mapping, mapped, current_flip, drawFb>>
eglVars  == <<current, bound, lastCall, resources>>
prodVars == <<pc, context, index, output>>
consVars == <<cpc, cslot, held>>
histVars == <<calls, frame1, rescanned, stage>>
scenVars == <<calls, frame1, stage>>
vars == <<rc, buffer_mapping, mapped, current_flip, drawFb, current, bound,
          lock, pc, context, index, output, aborted, cpc, cslot, held,
          lastCall, resources, calls, frame1, rescanned, stage>>

\* Faulty variant: Open starts drawing into slot 0.
Init_FlipZero ==
    /\ rc = [i \in Slots |-> 0]
    /\ buffer_mapping = [i \in Slots |-> FALSE]
    /\ mapped = [i \in Slots |-> FALSE]
    /\ current_flip = 0
    /\ drawFb = 0
    /\ current = FALSE
    /\ bound = FALSE
    /\ lock = NoThread
    /\ pc = "idle"
    /\ context = NoFrame
    /\ index = 0
    /\ output = NoFrame
    /\ aborted = FALSE
    /\ cpc = [c \in Consumers |-> "idle"]
    /\ cslot = [c \in Consumers |-> 0]
    /\ held = [i \in Slots |-> 0]
    /\ lastCall = "release"
    /\ resources = Resources
    /\ calls = 0
    /\ frame1 = NoFrame
    /\ rescanned = FALSE
    /\ stage = "produce"

\* State after a successful Open: every context has rc = 0 and a NULL mapping,
\* current_flip = BUFFER_COUNT - 1 is bound for drawing, and the context has
\* been released (vlc_gl_ReleaseCurrent at the end of Open).
Init ==
    /\ rc = [i \in Slots |-> 0]
    /\ buffer_mapping = [i \in Slots |-> FALSE]
    /\ mapped = [i \in Slots |-> FALSE]
    /\ current_flip = BUFFER_COUNT - 1
    /\ drawFb = BUFFER_COUNT - 1
    /\ current = FALSE
    /\ bound = FALSE
    /\ lock = NoThread
    /\ pc = "idle"
    /\ context = NoFrame
    /\ index = 0
    /\ output = NoFrame
    /\ aborted = FALSE
    /\ cpc = [c \in Consumers |-> "idle"]
    /\ cslot = [c \in Consumers |-> 0]
    /\ held = [i \in Slots |-> 0]
    /\ lastCall = "release"
    /\ resources = Resources
    /\ calls = 0
    /\ frame1 = NoFrame
    /\ rescanned = FALSE
    /\ stage = "produce"

(***************************************************************************)
(* History bookkeeping (not program state).  The scenario "produce frames  *)
(* and dispose none" is followed while it lasts: stage "produce" (nothing  *)
(* copied or disposed yet), "produce_dup" (copies but no dispose), "freed" *)
(* (the producer was suspended and exactly the first frame has then been   *)
(* disposed), "off" (anything else; calls and frame1 are then reset).      *)
(***************************************************************************)
Producing == stage \in {"produce", "produce_dup"}

HistOff == calls' = 0 /\ frame1' = NoFrame /\ stage' = "off"

HistSwapStart ==
    /\ IF Producing
       THEN calls' = calls + 1 /\ UNCHANGED <<frame1, stage>>
       ELSE HistOff
    /\ UNCHANGED rescanned

HistSwapReturn(slot) ==
    /\ IF Producing /\ calls = 1
       THEN frame1' = slot /\ UNCHANGED <<calls, stage>>
       ELSE UNCHANGED scenVars
    /\ UNCHANGED rescanned

HistCopyStart ==
    /\ IF Producing
       THEN stage' = "produce_dup" /\ UNCHANGED <<calls, frame1>>
       ELSE HistOff
    /\ UNCHANGED rescanned

HistDestroyStart(slot) ==
    /\ IF stage = "produce" /\ pc = "wait" /\ slot = frame1
       THEN stage' = "freed" /\ UNCHANGED <<calls, frame1>>
       ELSE HistOff
    /\ UNCHANGED rescanned

(***************************************************************************)
(* MakeCurrent / ReleaseCurrent (the producer thread, between Swap calls)  *)
(***************************************************************************)
\* Faulty variant: MakeCurrent without its assertion.
MakeCurrent_NoAssert ==
    /\ ~aborted
    /\ pc = "idle"
    /\ \E ok \in BOOLEAN :
        IF ok
        THEN current' = TRUE /\ bound' = TRUE /\ lastCall' = "make_ok"
        ELSE UNCHANGED <<current, bound>> /\ lastCall' = "make_fail"
    /\ UNCHANGED <<poolVars, resources, lock, prodVars, consVars, histVars, aborted>>

\* assert(!sys->current); eglMakeCurrent may fail (ok = FALSE): VLC_EGENERIC
\* is returned and sys->current is left alone.
MakeCurrent ==
    /\ ~aborted
    /\ pc = "idle"
    /\ IF current
       THEN /\ aborted' = TRUE
            /\ UNCHANGED <<current, bound, lastCall>>
       ELSE /\ \E ok \in BOOLEAN :
                IF ok
                THEN current' = TRUE /\ bound' = TRUE /\ lastCall' = "make_ok"
                ELSE UNCHANGED <<current, bound>> /\ lastCall' = "make_fail"
            /\ UNCHANGED aborted
    /\ UNCHANGED <<poolVars, resources, lock, prodVars, consVars, histVars>>

\* assert(sys->current); eglMakeCurrent(EGL_NO_CONTEXT); sys->current = false
ReleaseCurrent ==
    /\ ~aborted
    /\ pc = "idle"
    /\ IF ~current
       THEN /\ aborted' = TRUE
            /\ UNCHANGED <<current, bound, lastCall>>
       ELSE /\ current' = FALSE
            /\ bound' = FALSE
            /\ lastCall' = "release"
            /\ UNCHANGED aborted
    /\ UNCHANGED <<poolVars, resources, lock, prodVars, consVars, histVars>>

(***************************************************************************)
(* Swap (the producer thread)                                              *)
(***************************************************************************)
\* Faulty variant: Swap packages the slot of the picture it returned last.
SwapBegin_Previous ==
    /\ ~aborted
    /\ pc = "idle"
    /\ pc' = "unmap"
    /\ bound' = (IF ~current THEN TRUE ELSE bound)
    /\ context' = (IF output # NoFrame THEN output ELSE current_flip)
    /\ output' = NoFrame
    /\ HistSwapStart
    /\ UNCHANGED <<poolVars, current, lastCall, resources, lock, index, aborted,
                   consVars>>

\* Faulty variant: Swap records the context as current when it binds it.
SwapBegin_SetsCurrent ==
    /\ ~aborted
    /\ pc = "idle"
    /\ pc' = "unmap"
    /\ bound' = (IF ~current THEN TRUE ELSE bound)
    /\ current' = TRUE
    /\ context' = current_flip
    /\ output' = NoFrame
    /\ HistSwapStart
    /\ UNCHANGED <<poolVars, lastCall, resources, lock, index, aborted,
                   consVars>>

\* Swap entered: if (!sys->current) eglMakeCurrent(...); the code ignores the
\* result and the bind is taken to succeed;
\* context = &sys->picture_contexts[sys->current_flip].
SwapBegin ==
    /\ ~aborted
    /\ pc = "idle"
    /\ pc' = "unmap"
    /\ bound' = (IF ~current THEN TRUE ELSE bound)
    /\ context' = current_flip
    /\ output' = NoFrame
    /\ HistSwapStart
    /\ UNCHANGED <<poolVars, current, lastCall, resources, lock, index, aborted,
                   consVars>>

\* Faulty variant: Swap never unmaps the pixel buffer before reading into it.
SwapUnmap_Never ==
    /\ ~aborted
    /\ pc = "unmap"
    /\ drawFb' = current_flip
    /\ pc' = "readback"
    /\ UNCHANGED <<rc, buffer_mapping, mapped, current_flip, eglVars, lock,
                   context, index, output, aborted, consVars, histVars>>

\* Bind the pixel buffer and the framebuffer of current_flip;
\* if (context->buffer_mapping != NULL) UnmapBuffer.
SwapUnmap ==
    /\ ~aborted
    /\ pc = "unmap"
    /\ drawFb' = current_flip
    /\ mapped' = (IF buffer_mapping[context]
                  THEN [mapped EXCEPT ![current_flip] = FALSE]
                  ELSE mapped)
    /\ pc' = "readback"
    /\ UNCHANGED <<rc, buffer_mapping, current_flip, eglVars, lock, context,
                   index, output, aborted, consVars, histVars>>

\* ReadPixels into the pixel buffer of current_flip; MapBufferRange;
\* context->buffer_mapping = pixels.
SwapReadback ==
    /\ ~aborted
    /\ pc = "readback"
    /\ mapped' = [mapped EXCEPT ![current_flip] = TRUE]
    /\ buffer_mapping' = [buffer_mapping EXCEPT ![context] = TRUE]
    /\ pc' = "inc"
    /\ UNCHANGED <<rc, current_flip, drawFb, eglVars, lock, context, index,
                   output, aborted, consVars, histVars>>

\* Faulty variant: Swap forgets to take the reference of the frame it returns.
SwapIncRc_Skip ==
    /\ ~aborted
    /\ pc = "inc"
    /\ pc' = "ub_lock"
    /\ UNCHANGED <<poolVars, eglVars, lock, context, index, output, aborted,
                   consVars, histVars>>

\* context->rc++ (the pool mutex is not held here)
SwapIncRc ==
    /\ ~aborted
    /\ pc = "inc"
    /\ rc' = [rc EXCEPT ![context] = rc[context] + 1]
    /\ pc' = "ub_lock"
    /\ UNCHANGED <<buffer_mapping, mapped, current_flip, drawFb, eglVars, lock,
                   context, index, output, aborted, consVars, histVars>>

(***************************************************************************)
(* UpdateBuffer (called by Swap)                                           *)
(***************************************************************************)
\* Faulty variant: the scan starts at slot 1.
UpdateBufferLock_FromOne ==
    /\ ~aborted
    /\ pc = "ub_lock"
    /\ lock = NoThread
    /\ lock' = Producer
    /\ index' = 1
    /\ pc' = "scan"
    /\ UNCHANGED <<poolVars, eglVars, context, output, aborted, consVars,
                   histVars>>

\* vlc_mutex_lock(&sys->lock); the do-loop is entered with index = 0
UpdateBufferLock ==
    /\ ~aborted
    /\ pc = "ub_lock"
    /\ lock = NoThread
    /\ lock' = Producer
    /\ index' = 0
    /\ pc' = "scan"
    /\ UNCHANGED <<poolVars, eglVars, context, output, aborted, consVars,
                   histVars>>

\* Faulty variant: a slot counts as free only while its buffer was never mapped.
SlotFree_NeverMapped(i) == rc[i] = 0 /\ ~buffer_mapping[i]

\* Faulty variant: a slot with one reference left counts as free.
SlotFree_OffByOne(i) == rc[i] <= 1

\* The test of one iteration of the for-loop: is slot i free?
SlotFree(i) == rc[i] = 0

\* One iteration of for (index = 0; index < BUFFER_COUNT; ++index):
\* assert(rc >= 0); if (rc == 0) goto out_loop; otherwise ++index.
UpdateBufferScan ==
    /\ ~aborted
    /\ pc = "scan"
    /\ lock = Producer
    /\ index < BUFFER_COUNT
    /\ IF rc[index] < 0
       THEN aborted' = TRUE /\ UNCHANGED <<pc, index>>
       ELSE /\ UNCHANGED aborted
            /\ IF SlotFree(index)
               THEN pc' = "out_loop" /\ UNCHANGED index
               ELSE index' = index + 1 /\ UNCHANGED pc
    /\ UNCHANGED <<poolVars, eglVars, lock, context, output, consVars,
                   histVars>>

\* Faulty variant: the producer suspends without giving up the mutex.
UpdateBufferWait_KeepLock ==
    /\ ~aborted
    /\ pc = "scan"
    /\ lock = Producer
    /\ index = BUFFER_COUNT
    /\ pc' = "wait"
    /\ UNCHANGED <<poolVars, eglVars, lock, context, index, output, aborted,
                   consVars, histVars>>

\* Faulty variant: with no slot free the producer does not wait and takes slot 0.
UpdateBufferWait_TakeFirst ==
    /\ ~aborted
    /\ pc = "scan"
    /\ lock = Producer
    /\ index = BUFFER_COUNT
    /\ index' = 0
    /\ pc' = "out_loop"
    /\ UNCHANGED <<poolVars, eglVars, lock, context, output, aborted,
                   consVars, histVars>>

\* The for-loop ended with index = BUFFER_COUNT: vlc_cond_wait releases the
\* mutex and suspends the producer.
UpdateBufferWait ==
    /\ ~aborted
    /\ pc = "scan"
    /\ lock = Producer
    /\ index = BUFFER_COUNT
    /\ lock' = NoThread
    /\ pc' = "wait"
    /\ UNCHANGED <<poolVars, eglVars, context, index, output, aborted,
                   consVars, histVars>>

\* A condition variable may wake its waiter without a signal.
SpuriousWakeup ==
    /\ ~aborted
    /\ pc = "wait"
    /\ pc' = "woken"
    /\ UNCHANGED <<poolVars, eglVars, lock, context, index, output, aborted,
                   consVars, histVars>>

\* Faulty variant: after a wakeup the loop is left without looking again ("if"
\* instead of "while"), taking slot 0.
UpdateBufferRescan_NoRecheck ==
    /\ ~aborted
    /\ pc = "woken"
    /\ lock = NoThread
    /\ lock' = Producer
    /\ index' = 0
    /\ pc' = "out_loop"
    /\ rescanned' = TRUE
    /\ UNCHANGED <<poolVars, eglVars, context, output, aborted, consVars,
                   scenVars>>

\* vlc_cond_wait returns with the mutex held again; index == BUFFER_COUNT,
\* so the do-while loops and the for-loop restarts at index = 0.
UpdateBufferRescan ==
    /\ ~aborted
    /\ pc = "woken"
    /\ lock = NoThread
    /\ lock' = Producer
    /\ index' = (IF index = BUFFER_COUNT THEN 0 ELSE index)
    /\ pc' = (IF index = BUFFER_COUNT THEN "scan" ELSE "out_loop")
    /\ rescanned' = TRUE
    /\ UNCHANGED <<poolVars, eglVars, context, output, aborted, consVars,
                   scenVars>>

\* out_loop: vlc_mutex_unlock(&sys->lock)
UpdateBufferUnlock ==
    /\ ~aborted
    /\ pc = "out_loop"
    /\ lock = Producer
    /\ lock' = NoThread
    /\ pc' = "flip"
    /\ UNCHANGED <<poolVars, eglVars, context, index, output, aborted,
                   consVars, histVars>>

\* Faulty variant: the draw target advances round-robin, whatever the scan found.
UpdateBufferFlip_RoundRobin ==
    /\ ~aborted
    /\ pc = "flip"
    /\ current_flip' = (current_flip + 1) % BUFFER_COUNT
    /\ drawFb' = (current_flip + 1) % BUFFER_COUNT
    /\ index' = 0
    /\ rescanned' = FALSE
    /\ pc' = "unbind"
    /\ UNCHANGED <<rc, buffer_mapping, mapped, eglVars, lock, context, output,
                   aborted, consVars, scenVars>>

\* sys->current_flip = index; BindDrawFramebuffer(sys)
UpdateBufferFlip ==
    /\ ~aborted
    /\ pc = "flip"
    /\ current_flip' = index
    /\ drawFb' = index
    /\ index' = 0
    /\ rescanned' = FALSE
    /\ pc' = "unbind"
    /\ UNCHANGED <<rc, buffer_mapping, mapped, eglVars, lock, context, output,
                   aborted, consVars, scenVars>>

(***************************************************************************)
(* Swap, after UpdateBuffer                                                *)
(***************************************************************************)
\* if (!sys->current) eglMakeCurrent(EGL_NO_SURFACE, ..., EGL_NO_CONTEXT)
SwapUnbind ==
    /\ ~aborted
    /\ pc = "unbind"
    /\ bound' = (IF ~current THEN FALSE ELSE bound)
    /\ pc' = "package"
    /\ UNCHANGED <<poolVars, current, lastCall, resources, lock, context, index, output,
                   aborted, consVars, histVars>>

\* output = picture_NewFromResource(...); assert(output);
\* output->context = context; return output.  The caller now owns one
\* reference to the picture context.
SwapPackage ==
    /\ ~aborted
    /\ pc = "package"
    /\ \E ok \in BOOLEAN :
        IF ok
        THEN /\ output' = context
             /\ held' = [held EXCEPT ![context] = held[context] + 1]
             /\ pc' = "idle"
             /\ context' = NoFrame
             /\ HistSwapReturn(context)
             /\ UNCHANGED aborted
        ELSE /\ aborted' = TRUE
             /\ UNCHANGED <<output, held, pc, context, histVars>>
    /\ UNCHANGED <<poolVars, eglVars, lock, index, cpc, cslot>>

(***************************************************************************)
(* Consumers.  A consumer copies or destroys only a picture context it     *)
(* owns a reference to: held[s] counts the references consumers own, and   *)
(* a reference being copied is not destroyed while the copy runs.          *)
(***************************************************************************)
Copying(s) == \E c \in Consumers :
    cpc[c] \in {"copy_lock", "copy_inc"} /\ cslot[c] = s

RECURSIVE Extra(_)
\* References beyond the first, summed over the slots 0 .. n-1.
Extra(n) ==
    IF n = 0 THEN 0
    ELSE Extra(n - 1) + (IF rc[n - 1] > 1 THEN rc[n - 1] - 1 ELSE 0)

CopiesUnderWay == Cardinality({c \in Consumers : cpc[c] \in {"copy_lock", "copy_inc"}})

\* picture_context_copy(input) is called
CopyStart(c, s) ==
    /\ ~aborted
    /\ cpc[c] = "idle"
    /\ held[s] > 0
    /\ Extra(BUFFER_COUNT) + CopiesUnderWay < MaxDups
    /\ cpc' = [cpc EXCEPT ![c] = "copy_lock"]
    /\ cslot' = [cslot EXCEPT ![c] = s]
    /\ HistCopyStart
    /\ UNCHANGED <<poolVars, eglVars, lock, prodVars, aborted, held>>

\* vlc_mutex_lock(context->lock)
CopyLock(c) ==
    /\ ~aborted
    /\ cpc[c] = "copy_lock"
    /\ lock = NoThread
    /\ lock' = c
    /\ cpc' = [cpc EXCEPT ![c] = "copy_inc"]
    /\ UNCHANGED <<poolVars, eglVars, prodVars, aborted, cslot, held, histVars>>

\* Faulty variant: picture_context_copy returns the handle without counting it.
CopyInc_NoCount(c) ==
    /\ ~aborted
    /\ cpc[c] = "copy_inc"
    /\ lock = c
    /\ lock' = NoThread
    /\ cpc' = [cpc EXCEPT ![c] = "idle"]
    /\ held' = [held EXCEPT ![cslot[c]] = held[cslot[c]] + 1]
    /\ UNCHANGED <<poolVars, eglVars, prodVars, aborted, cslot, histVars>>

\* context->rc++; vlc_mutex_unlock(context->lock); return input: the caller
\* owns one more reference
CopyInc(c) ==
    /\ ~aborted
    /\ cpc[c] = "copy_inc"
    /\ lock = c
    /\ rc' = [rc EXCEPT ![cslot[c]] = rc[cslot[c]] + 1]
    /\ lock' = NoThread
    /\ cpc' = [cpc EXCEPT ![c] = "idle"]
    /\ held' = [held EXCEPT ![cslot[c]] = held[cslot[c]] + 1]
    /\ UNCHANGED <<buffer_mapping, mapped, current_flip, drawFb, eglVars,
                   prodVars, aborted, cslot, histVars>>

\* picture_context_destroy(input) is called: the caller gives up a reference
DestroyStart(c, s) ==
    /\ ~aborted
    /\ cpc[c] = "idle"
    /\ held[s] > (IF Copying(s) THEN 1 ELSE 0)
    /\ held' = [held EXCEPT ![s] = held[s] - 1]
    /\ cpc' = [cpc EXCEPT ![c] = "destroy_lock"]
    /\ cslot' = [cslot EXCEPT ![c] = s]
    /\ HistDestroyStart(s)
    /\ UNCHANGED <<poolVars, eglVars, lock, prodVars, aborted>>

\* vlc_mutex_lock(context->lock)
DestroyLock(c) ==
    /\ ~aborted
    /\ cpc[c] = "destroy_lock"
    /\ lock = NoThread
    /\ lock' = c
    /\ cpc' = [cpc EXCEPT ![c] = "destroy_dec"]
    /\ UNCHANGED <<poolVars, eglVars, prodVars, aborted, cslot, held, histVars>>

\* Faulty variant: picture_context_destroy does not signal the condition variable.
CondSignal_Missing == pc

\* vlc_cond_signal(context->cond): wakes the producer if it is waiting
CondSignal == IF pc = "wait" THEN "woken" ELSE pc

\* context->rc--; vlc_cond_signal(context->cond);
\* vlc_mutex_unlock(context->lock)
DestroyDec(c) ==
    /\ ~aborted
    /\ cpc[c] = "destroy_dec"
    /\ lock = c
    /\ rc' = [rc EXCEPT ![cslot[c]] = rc[cslot[c]] - 1]
    /\ pc' = CondSignal
    /\ lock' = NoThread
    /\ cpc' = [cpc EXCEPT ![c] = "idle"]
    /\ UNCHANGED <<buffer_mapping, mapped, current_flip, drawFb, eglVars,
                   context, index, output, aborted, cslot, held, histVars>>

(***************************************************************************)
(* Specifications                                                          *)
(***************************************************************************)
ProducerStep ==
    \/ SwapBegin
    \/ SwapUnmap
    \/ SwapReadback
    \/ SwapIncRc
    \/ UpdateBufferLock
    \/ UpdateBufferScan
    \/ UpdateBufferWait
    \/ UpdateBufferRescan
    \/ UpdateBufferUnlock
    \/ UpdateBufferFlip
    \/ SwapUnbind
    \/ SwapPackage

ConsumerStep(c) ==
    \/ CopyLock(c)
    \/ CopyInc(c)
    \/ DestroyLock(c)
    \/ DestroyDec(c)

\* The frame pool: Swap calls and the consumers' copies and destroys.
PoolNext ==
    \/ ProducerStep
    \/ SpuriousWakeup
    \/ \E c \in Consumers : \E s \in Slots : CopyStart(c, s)
    \/ \E c \in Consumers : \E s \in Slots : DestroyStart(c, s)
    \/ \E c \in Consumers : ConsumerStep(c)

Next ==
    \/ MakeCurrent
    \/ ReleaseCurrent
    \/ PoolNext

Spec == Init /\ [][Next]_vars

\* The producer's steps inside a Swap call that need no mutex, and the two
\* that take it.
ProducerRun ==
    \/ SwapUnmap
    \/ SwapReadback
    \/ SwapIncRc
    \/ UpdateBufferScan
    \/ UpdateBufferWait
    \/ UpdateBufferUnlock
    \/ UpdateBufferFlip
    \/ SwapUnbind
    \/ SwapPackage

ProducerLock == UpdateBufferLock \/ UpdateBufferRescan

\* Fair scheduling: a thread that can take its next step takes it, and a
\* thread that asks for the mutex gets it (strong fairness on the lock
\* steps).  Nothing obliges the caller to start a Swap, a copy or a destroy,
\* and nothing obliges the condition variable to wake the producer
\* spuriously.
Fairness ==
    /\ WF_vars(ProducerRun)
    /\ SF_vars(ProducerLock)
    /\ \A c \in Consumers :
        /\ WF_vars(CopyInc(c) \/ DestroyDec(c))
        /\ SF_vars(CopyLock(c) \/ DestroyLock(c))

\* The liveness properties are checked on the frame pool alone: the caller
\* leaves the context not current around its Swap calls.
FairSpec == Init /\ [][PoolNext]_vars /\ Fairness

(***************************************************************************)
(* Well-formedness of the model                                            *)
(***************************************************************************)
TypeOK ==
    /\ rc \in [Slots -> Int]
    /\ buffer_mapping \in [Slots -> BOOLEAN]
    /\ mapped \in [Slots -> BOOLEAN]
    /\ current_flip \in Slots
    /\ drawFb \in Slots
    /\ current \in BOOLEAN /\ bound \in BOOLEAN /\ aborted \in BOOLEAN
    /\ resources \subseteq Resources
    /\ lock \in {NoThread, Producer} \cup Consumers
    /\ pc \in {"idle", "unmap", "readback", "inc", "ub_lock", "scan", "wait",
               "woken", "out_loop", "flip", "unbind", "package"}
    /\ context \in Slots \cup {NoFrame}
    /\ index \in 0 .. BUFFER_COUNT
    /\ output \in Slots \cup {NoFrame}
    /\ cpc \in [Consumers -> {"idle", "copy_lock", "copy_inc", "destroy_lock",
                              "destroy_dec"}]
    /\ cslot \in [Consumers -> Slots]
    /\ held \in [Slots -> Nat]

\* The producer is inside UpdateBuffer's loop (scanning or suspended).
InLoop == pc \in {"scan", "wait", "woken"}

\* The steps of Swap that unmap the pixel buffer of current_flip (if it is
\* mapped), and that read pixels into it and map it.
UnmapStep == pc = "unmap" /\ pc' = "readback"
TransferStep == pc = "readback" /\ pc' = "inc"

\* Slot s backs a frame or a copy of one that has not been destroyed.
Live(s) == rc[s] > 0 \/ held[s] > 0

(***************************************************************************)
(* C1: while a slot's reference count is greater than 0 (a frame or a copy *)
(* of it is live), the producer does not unmap the slot's pixel buffer and *)
(* issues no pixel transfer into it; a frame Swap returns is backed by a   *)
(* slot no other live reference uses.                                      *)
(***************************************************************************)
C1_LiveSlotUntouched ==
    /\ [][\A s \in Slots : Live(s) =>
            /\ ~(UnmapStep /\ current_flip = s)
            /\ ~(TransferStep /\ current_flip = s)
            /\ mapped'[s] = mapped[s]
            /\ buffer_mapping'[s] = buffer_mapping[s]]_vars
    /\ [][pc = "package" /\ pc' = "idle" =>
            /\ output' = context /\ rc[context] = 1 /\ held[context] = 0
            /\ \A c \in Consumers : cpc[c] = "idle" \/ cslot[c] # context]_vars

\* A second frame has been returned while a copy of an earlier frame, whose
\* original was destroyed, is still live on another, mapped slot.
C1_Witness ==
    /\ pc = "idle" /\ stage = "off" /\ output \in Slots
    /\ \E s \in Slots : s # output /\ held[s] > 0 /\ rc[s] > 0 /\ mapped[s]
    /\ \A c \in Consumers : cpc[c] = "idle"

C3_NoBusySlotAcquired ==
    /\ [][pc = "flip" /\ pc' = "unbind" =>
            rc[current_flip'] = 0 /\ drawFb' = current_flip']_vars
    /\ [][drawFb' # drawFb => rc'[drawFb'] = 0]_vars
    /\ [][InLoop /\ pc' = "out_loop" => rc[index'] = 0]_vars
    /\ [][InLoop /\ (\A s \in Slots : rc[s] # 0) /\ (\A s \in Slots : rc'[s] # 0)
            => pc' \in {"scan", "wait", "woken"}]_vars
    /\ [][pc = "woken" /\ pc' # "woken" =>
            pc' = "scan" /\ index' = 0 /\ lock' = Producer]_vars
    /\ [][pc = "scan" /\ index = BUFFER_COUNT /\ pc' # "scan" =>
            pc' = "wait" /\ lock' = NoThread]_vars

\* The producer was woken, rescanned all slots, found none free and is
\* about to wait again.
C3_Witness ==
    /\ pc = "scan" /\ index = BUFFER_COUNT /\ rescanned
    /\ \A s \in Slots : rc[s] # 0

(***************************************************************************)
(* C4 (as amended): from a freshly opened pool, while no frame has been    *)
(* destroyed, the first BUFFER_COUNT - 1 Swap calls never wait, and the    *)
(* BUFFER_COUNT-th Swap call does not get past UpdateBuffer's loop: it     *)
(* stays there until a destroy of one of the earlier frames has started.   *)
(***************************************************************************)
C4_BlocksOnNthCall ==
    Producing =>
        /\ calls <= BUFFER_COUNT
        /\ calls < BUFFER_COUNT => pc \notin {"wait", "woken"}
        /\ calls = BUFFER_COUNT =>
              pc \in {"unmap", "readback", "inc", "ub_lock", "scan", "wait",
                      "woken"}

\* The BUFFER_COUNT-th call is suspended, BUFFER_COUNT - 1 frames are out
\* and none has been destroyed.
C4_Witness ==
    /\ Producing /\ calls = BUFFER_COUNT /\ pc = "wait"
    /\ \A s \in Slots : rc[s] > 0
    /\ Cardinality({s \in Slots : held[s] > 0}) = BUFFER_COUNT - 1

\* C4 as stated: the first BUFFER_COUNT Swap calls return without waiting
\* (only call BUFFER_COUNT + 1 blocks).
C4_Original ==
    Producing /\ calls <= BUFFER_COUNT => pc \notin {"wait", "woken"}

C6_NoLostWakeup ==
    (pc \in {"wait", "woken"} /\ \E s \in Slots : rc[s] = 0)
        ~> (rc[current_flip] = 0 /\ (pc = "idle" \/ aborted))

\* The producer had found every slot referenced, and a destroy has since
\* brought a count to 0 and signalled it.
C6_Witness ==
    /\ pc = "woken" /\ index = BUFFER_COUNT
    /\ \E s \in Slots : rc[s] = 0
    /\ \A c \in Consumers : cpc[c] = "idle"

(***************************************************************************)
(* C9: consumers never block.  The producer does not hold the mutex while  *)
(* it is suspended, so under fair scheduling every picture_context_copy    *)
(* and picture_context_destroy call that has started completes, also while *)
(* the producer is suspended with every slot referenced; no consumer ever  *)
(* waits on the condition variable (only the mutex).                       *)
(***************************************************************************)
C9_ConsumersNeverBlock ==
    /\ [](pc \in {"wait", "woken"} => lock # Producer)
    /\ [](\A c \in Consumers : cpc[c] \in
            {"idle", "copy_lock", "copy_inc", "destroy_lock", "destroy_dec"})
    /\ \A c \in Consumers :
          (cpc[c] # "idle") ~> (cpc[c] = "idle" \/ aborted)

\* A consumer that called copy has got the mutex while the producer is
\* suspended with every slot referenced, and another consumer has called
\* destroy.
C9_Witness ==
    /\ pc = "wait" /\ \A s \in Slots : rc[s] > 0
    /\ \E c \in Consumers : cpc[c] = "copy_inc" /\ lock = c
    /\ \E c \in Consumers : cpc[c] = "destroy_lock"

(***************************************************************************)
(* C7: whenever UpdateBuffer's scan stops at a slot, that slot has count 0 *)
(* and every lower-indexed slot has a nonzero count (the mutex is held, so *)
(* these are the counts at the moment of the scan).                        *)
(***************************************************************************)
C7_LowestFreeSlotChosen ==
    pc = "out_loop" =>
        /\ lock = Producer
        /\ index \in Slots
        /\ rc[index] = 0
        /\ \A j \in Slots : j < index => rc[j] # 0

\* Several slots are free and the scan stopped at the lowest of them, which
\* is not slot 0.
C7_Witness ==
    /\ pc = "out_loop" /\ index > 0
    /\ \E j \in Slots : j > index /\ rc[j] = 0

(***************************************************************************)
(* C8: picture_context_destroy on a context whose count is 1 leaves the    *)
(* count at 0 and wakes a waiting producer; a count of 0 stays 0 until the *)
(* producer itself takes the slot, and a scan that reaches a slot with     *)
(* count 0 stops at it: nothing else is needed to make the slot eligible.  *)
(***************************************************************************)
C8_FreedSlotEligibleAtOnce ==
    /\ [][\A c \in Consumers :
            cpc[c] = "destroy_dec" /\ cpc'[c] = "idle" /\ rc[cslot[c]] = 1 =>
               /\ rc'[cslot[c]] = 0
               /\ lock' = NoThread
               /\ pc = "wait" => pc' = "woken"]_vars
    /\ [][\A s \in Slots : rc[s] = 0 /\ rc'[s] # 0 => pc = "inc" /\ context = s]_vars
    /\ [][pc = "scan" /\ index < BUFFER_COUNT /\ rc[index] = 0
            /\ (pc' # pc \/ index' # index) => pc' = "out_loop" /\ index' = index]_vars

\* The scan stopped at a slot that was in use before (its buffer is mapped)
\* and whose last reference has been destroyed, after the producer waited.
C8_Witness ==
    /\ pc = "out_loop" /\ rescanned
    /\ rc[index] = 0 /\ buffer_mapping[index]

(***************************************************************************)
(* C10: MakeCurrent on a context that is current and ReleaseCurrent on one *)
(* that is not are assertion failures (the process aborts, the flag is not *)
(* touched); sys->current is TRUE exactly when the last MakeCurrent or     *)
(* ReleaseCurrent call was a MakeCurrent whose bind succeeded; a           *)
(* MakeCurrent whose bind fails leaves the flag FALSE.                     *)
(***************************************************************************)
C10_CurrentPairedNonReentrant ==
    /\ [](current <=> lastCall = "make_ok")
    /\ [](lastCall = "make_fail" => ~current)
    /\ [][MakeCurrent /\ current => aborted' /\ current']_vars
    /\ [][ReleaseCurrent /\ ~current => aborted' /\ ~current']_vars
    /\ [][MakeCurrent /\ ~current => ~aborted' /\ (current' <=> bound')]_vars
    /\ [][ReleaseCurrent /\ current => ~aborted' /\ ~current' /\ ~bound']_vars
    /\ [][current' # current => MakeCurrent \/ ReleaseCurrent]_vars

\* MakeCurrent was called twice in a row and the second call aborted.
C10_Witness == aborted /\ current /\ lastCall = "make_ok" /\ pc = "idle"

(***************************************************************************)
(* C11.  Claim: when picture_NewFromResource fails, Swap undoes the        *)
(* reference count it took in this call and returns NULL; it does not      *)
(* halt, the slot is not leaked and a later Swap can acquire it again.     *)
(* Stated on the build the model describes (assert() compiled in): the     *)
(* process is never aborted while Swap is packaging its picture.           *)
(***************************************************************************)
C11_PackagingFailureReturns == pc = "package" => ~aborted

\* The same Swap step in a build with NDEBUG: assert(output) is compiled
\* out and the error label runs: context->rc--; return NULL (the mutex is not
\* taken and the condition variable is not signalled).
SwapPackageNdebug ==
    /\ ~aborted
    /\ pc = "package"
    /\ \E ok \in BOOLEAN :
        IF ok
        THEN /\ output' = context
             /\ held' = [held EXCEPT ![context] = held[context] + 1]
             /\ HistSwapReturn(context)
             /\ UNCHANGED rc
        ELSE /\ rc' = [rc EXCEPT ![context] = rc[context] - 1]
             /\ HistOff
             /\ UNCHANGED <<output, held, rescanned>>
    /\ pc' = "idle"
    /\ context' = NoFrame
    /\ UNCHANGED <<buffer_mapping, mapped, current_flip, drawFb, eglVars,
                   lock, index, aborted, cpc, cslot>>

NdebugNext ==
    \/ SwapBegin
    \/ SwapUnmap
    \/ SwapReadback
    \/ SwapIncRc
    \/ UpdateBufferLock
    \/ UpdateBufferScan
    \/ UpdateBufferWait
    \/ UpdateBufferRescan
    \/ UpdateBufferUnlock
    \/ UpdateBufferFlip
    \/ SwapUnbind
    \/ SwapPackageNdebug
    \/ SpuriousWakeup
    \/ \E c \in Consumers : \E s \in Slots : CopyStart(c, s)
    \/ \E c \in Consumers : \E s \in Slots : DestroyStart(c, s)
    \/ \E c \in Consumers : ConsumerStep(c)

\* The frame pool in a build with NDEBUG.
NdebugSpec == Init /\ [][NdebugNext]_vars

\* C11, in a build with NDEBUG only: a Swap call that fails to package its
\* picture returns NULL with the count of its slot back from 1 to 0 and no
\* reference handed out, and the slot is free for a later UpdateBuffer.
C11_NdebugErrorPathRestoresCount ==
    [][pc = "package" /\ pc' = "idle" /\ output' = NoFrame
       => /\ rc[context] = 1
          /\ rc'[context] = 0
          /\ held'[context] = 0
          /\ ~aborted']_vars

\* A Swap call has failed to package slot 0 and a later call draws into it.
C11_NdebugWitness ==
    /\ pc = "unmap"
    /\ stage = "off"
    /\ context = 0
    /\ \A s \in Slots : rc[s] = 0 /\ held[s] = 0
    /\ mapped[0]

(***************************************************************************)
(* C12.  A caller that breaks the protocol: picture_context_destroy is     *)
(* called on a picture context whose count is 0 and that no consumer owns  *)
(* a reference to.  The call then runs DestroyLock and DestroyDec like any *)
(* other: picture_context_destroy makes no assertion on rc.  Such a call   *)
(* is taken when the pool is quiet: no frame is outstanding, every count   *)
(* is 0 and no Swap, copy or destroy is under way.                         *)
(***************************************************************************)
DestroyUnowned(c, s) ==
    /\ ~aborted
    /\ pc = "idle"
    /\ \A d \in Consumers : cpc[d] = "idle"
    /\ \A t \in Slots : rc[t] = 0 /\ held[t] = 0
    /\ cpc' = [cpc EXCEPT ![c] = "destroy_lock"]
    /\ cslot' = [cslot EXCEPT ![c] = s]
    /\ HistDestroyStart(s)
    /\ UNCHANGED <<poolVars, eglVars, lock, prodVars, aborted, held>>

MisuseNext ==
    \/ PoolNext
    \/ \E c \in Consumers : \E s \in Slots : DestroyUnowned(c, s)

\* The frame pool with callers that may destroy a context they do not own.
MisuseSpec == Init /\ [][MisuseNext]_vars

\* C12.  Claim: a picture_context_destroy on a context whose count is
\* already 0 halts the process at that call, so no count is ever left
\* negative for another operation to observe.
C12_DisposeAtZeroHalts == \A s \in Slots : rc[s] >= 0

(***************************************************************************)
(* C13.  Claim: every read or write of a slot's rc is made by a thread     *)
(* that holds sys->lock: the producer holds it when Swap increments the    *)
(* count and when UpdateBuffer reads the counts, a consumer holds it when  *)
(* picture_context_copy or picture_context_destroy changes a count.        *)
(***************************************************************************)
C13_CountAccessUnderMutex ==
    [][/\ (rc' # rc /\ pc = "inc") => lock = Producer
       /\ (rc' # rc /\ pc # "inc") => lock \in Consumers
       /\ pc = "scan" => lock = Producer]_vars

(***************************************************************************)
(* C14: from the start of a Swap call until Swap has incremented the       *)
(* count, the slot current_flip has rc = 0, no consumer owns a reference   *)
(* to its picture context and no copy or destroy is under way on it; the   *)
(* increment in Swap takes the count of that slot from 0 to 1.             *)
(***************************************************************************)
C14_DrawTargetUnreferenced ==
    /\ [](pc \in {"idle", "unmap", "readback", "inc"}
            => /\ rc[current_flip] = 0
               /\ held[current_flip] = 0
               /\ \A c \in Consumers :
                    cpc[c] # "idle" => cslot[c] # current_flip)
    /\ [][pc = "inc" /\ pc' = "ub_lock"
            => /\ context = current_flip
               /\ rc[context] = 0
               /\ rc'[context] = 1]_vars

\* Swap has just taken the count of slot 0, used before, from 0 to 1 while
\* one consumer is inside a destroy and the other inside a copy.
C14_Witness ==
    /\ pc = "ub_lock"
    /\ context = 0
    /\ mapped[0]
    /\ rc[0] = 1
    /\ held[0] = 0
    /\ cpc["c1"] = "destroy_dec"
    /\ cpc["c2"] = "copy_lock"

(***************************************************************************)
(* C15: the picture a Swap call returns is backed by the slot that was     *)
(* current_flip, bound for drawing, when Swap was called: that slot is     *)
(* read back and mapped in this call and `context` does not change during  *)
(* the call.  The slot UpdateBuffer makes the next current_flip differs     *)
(* from the slot being packaged.                                           *)
(***************************************************************************)
C15_ReturnsDrawnSlotAdvancesToOther ==
    /\ [](pc = "idle" => drawFb = current_flip)
    /\ [][/\ (pc = "idle" /\ pc' = "unmap") => context' = current_flip
          /\ (pc # "idle" /\ pc' # "idle") => context' = context
          /\ TransferStep => /\ context = current_flip
                             /\ mapped'[context]
                             /\ buffer_mapping'[context]
          /\ (pc = "flip" /\ pc' = "unbind") => current_flip' # context
          /\ (pc = "package" /\ pc' = "idle")
                => /\ output' = context
                   /\ mapped[context]
                   /\ current_flip # context]_vars

\* The second Swap call has returned slot 0, the draw target it was called
\* with, and slot 1 is the next draw target.
C15_Witness ==
    /\ pc = "idle"
    /\ output = 0
    /\ current_flip = 1
    /\ drawFb = 1
    /\ held[3] = 1
    /\ held[0] = 1
    /\ mapped[0]

(***************************************************************************)
(* C16: ReadPixels is never issued into a pixel buffer in the mapped       *)
(* state.  buffer_mapping of a slot is non-NULL exactly when the slot's    *)
(* pixel buffer is mapped, except between Swap's unmap and its next map of *)
(* that slot, where the old pointer is still recorded; Swap unmaps the     *)
(* buffer of current_flip if it is mapped, then reads into it, then maps   *)
(* it, and the mapped state of a buffer changes in no other way.           *)
(***************************************************************************)
C16_NoTransferIntoMappedBuffer ==
    /\ [](\A s \in Slots :
            \/ pc = "readback" /\ s = current_flip
            \/ mapped[s] <=> buffer_mapping[s])
    /\ [](pc = "readback" => ~mapped[current_flip])
    /\ [][/\ UnmapStep => /\ mapped[current_flip] <=> buffer_mapping[context]
                          /\ ~mapped'[current_flip]
          /\ TransferStep => /\ ~mapped[current_flip]
                             /\ mapped'[current_flip]
          /\ \A s \in Slots :
                mapped'[s] # mapped[s]
                    => /\ s = current_flip
                       /\ IF mapped[s] THEN UnmapStep ELSE TransferStep]_vars

\* Slot 0, mapped since an earlier Swap call, has been unmapped and is about
\* to be read into: its old pointer is still recorded.
C16_Witness ==
    /\ pc = "readback"
    /\ current_flip = 0
    /\ buffer_mapping[0]
    /\ ~mapped[0]
    /\ mapped[3]

(***************************************************************************)
(* Open and InitEGL.  The producer's position during Open is kept in pc;   *)
(* none of the other operations is enabled before Open has returned        *)
(* VLC_SUCCESS (pc = "idle").  A failed Open ends in "open_enomem" or      *)
(* "open_egeneric".                                                        *)
(***************************************************************************)
OpenPcs == {"open", "egl_display", "egl_initialize", "egl_config",
            "egl_surface", "egl_bindapi", "egl_context", "open_make",
            "open_api", "open_setup", "open_release"}

\* eglTerminate(sys->display) releases the display connection and the
\* surface and context created on it.
Terminate(res) == res \ {"display", "surface", "context"}

\* vlc_obj_free(&gl->obj, sys)
Free(res) == res \ {"sys"}

\* Before Open: nothing is acquired and the context is not current; the
\* picture contexts are not initialized (g stands for what their memory
\* will hold when sys is allocated).
InitOpen ==
    /\ \E g \in BOOLEAN :
        /\ rc = [i \in Slots |-> IF g THEN 1 ELSE 0]
        /\ buffer_mapping = [i \in Slots |-> g]
    /\ current = FALSE
    /\ mapped = [i \in Slots |-> FALSE]
    /\ current_flip = 0
    /\ drawFb = 0
    /\ bound = FALSE
    /\ lock = NoThread
    /\ pc = "open"
    /\ context = NoFrame
    /\ index = 0
    /\ output = NoFrame
    /\ aborted = FALSE
    /\ cpc = [c \in Consumers |-> "idle"]
    /\ cslot = [c \in Consumers |-> 0]
    /\ held = [i \in Slots |-> 0]
    /\ lastCall = "release"
    /\ resources = {}
    /\ calls = 0
    /\ frame1 = NoFrame
    /\ rescanned = FALSE
    /\ stage = "produce"

\* sys = vlc_obj_malloc(...); if (sys == NULL) return VLC_ENOMEM;
\* sys->current = false; vlc_mutex_init; vlc_cond_init
OpenAlloc ==
    /\ ~aborted
    /\ pc = "open"
    /\ \E ok \in BOOLEAN :
        IF ok
        THEN /\ resources' = resources \cup {"sys"}
             /\ current' = FALSE
             /\ pc' = "egl_display"
        ELSE /\ pc' = "open_enomem"
             /\ UNCHANGED <<resources, current>>
    /\ UNCHANGED <<poolVars, bound, lastCall, lock, context, index, output,
                   aborted, consVars, histVars>>

\* InitEGL: eglGetDisplay; on EGL_NO_DISPLAY return VLC_EGENERIC, and Open
\* goes to error1: vlc_obj_free, return VLC_EGENERIC
InitEGL_GetDisplay ==
    /\ ~aborted
    /\ pc = "egl_display"
    /\ \E ok \in BOOLEAN :
        IF ok
        THEN pc' = "egl_initialize" /\ UNCHANGED resources
        ELSE pc' = "open_egeneric" /\ resources' = Free(resources)
    /\ UNCHANGED <<poolVars, current, bound, lastCall, lock, context, index,
                   output, aborted, consVars, histVars>>

\* InitEGL: eglInitialize; on failure return VLC_EGENERIC (no eglTerminate),
\* and Open goes to error1
InitEGL_Initialize ==
    /\ ~aborted
    /\ pc = "egl_initialize"
    /\ \E ok \in BOOLEAN :
        IF ok
        THEN pc' = "egl_config" /\ resources' = resources \cup {"display"}
        ELSE pc' = "open_egeneric" /\ resources' = Free(resources)
    /\ UNCHANGED <<poolVars, current, bound, lastCall, lock, context, index,
                   output, aborted, consVars, histVars>>

\* InitEGL: eglChooseConfig; on failure goto error: eglTerminate, return
\* VLC_EGENERIC, and Open goes to error1
InitEGL_ChooseConfig ==
    /\ ~aborted
    /\ pc = "egl_config"
    /\ \E ok \in BOOLEAN :
        IF ok
        THEN pc' = "egl_surface" /\ UNCHANGED resources
        ELSE pc' = "open_egeneric" /\ resources' = Free(Terminate(resources))
    /\ UNCHANGED <<poolVars, current, bound, lastCall, lock, context, index,
                   output, aborted, consVars, histVars>>

\* InitEGL: eglCreatePbufferSurface; on EGL_NO_SURFACE: msg_Err,
\* assert(false) (the goto error after it is not reached)
InitEGL_CreateSurface ==
    /\ ~aborted
    /\ pc = "egl_surface"
    /\ \E ok \in BOOLEAN :
        IF ok
        THEN /\ pc' = "egl_bindapi"
             /\ resources' = resources \cup {"surface"}
             /\ UNCHANGED aborted
        ELSE /\ aborted' = TRUE
             /\ UNCHANGED <<pc, resources>>
    /\ UNCHANGED <<poolVars, current, bound, lastCall, lock, context, index,
                   output, consVars, histVars>>

\* InitEGL: eglBindAPI; on failure goto error
InitEGL_BindAPI ==
    /\ ~aborted
    /\ pc = "egl_bindapi"
    /\ \E ok \in BOOLEAN :
        IF ok
        THEN pc' = "egl_context" /\ UNCHANGED resources
        ELSE pc' = "open_egeneric" /\ resources' = Free(Terminate(resources))
    /\ UNCHANGED <<poolVars, current, bound, lastCall, lock, context, index,
                   output, aborted, consVars, histVars>>

\* InitEGL: eglCreateContext; on EGL_NO_CONTEXT goto error; otherwise InitEGL
\* returns VLC_SUCCESS and Open sets the callbacks of gl
InitEGL_CreateContext ==
    /\ ~aborted
    /\ pc = "egl_context"
    /\ \E ok \in BOOLEAN :
        IF ok
        THEN pc' = "open_make" /\ resources' = resources \cup {"context"}
        ELSE pc' = "open_egeneric" /\ resources' = Free(Terminate(resources))
    /\ UNCHANGED <<poolVars, current, bound, lastCall, lock, context, index,
                   output, aborted, consVars, histVars>>

\* vlc_gl_MakeCurrent(gl): runs MakeCurrent; Open does not look at the result
OpenMakeCurrent ==
    /\ ~aborted
    /\ pc = "open_make"
    /\ IF current
       THEN /\ aborted' = TRUE
            /\ UNCHANGED <<current, bound, lastCall, pc>>
       ELSE /\ \E ok \in BOOLEAN :
                IF ok
                THEN current' = TRUE /\ bound' = TRUE /\ lastCall' = "make_ok"
                ELSE UNCHANGED <<current, bound>> /\ lastCall' = "make_fail"
            /\ pc' = "open_api"
            /\ UNCHANGED aborted
    /\ UNCHANGED <<poolVars, resources, lock, context, index, output,
                   consVars, histVars>>

\* ret = vlc_gl_api_Init(&sys->api, gl); on failure vlc_gl_ReleaseCurrent(gl)
\* (runs ReleaseCurrent, with its assertion), goto error2: eglTerminate,
\* vlc_obj_free, return VLC_EGENERIC
OpenApiInit ==
    /\ ~aborted
    /\ pc = "open_api"
    /\ \E ok \in BOOLEAN :
        IF ok
        THEN /\ pc' = "open_setup"
             /\ UNCHANGED <<current, bound, lastCall, resources, aborted>>
        ELSE IF ~current
             THEN /\ aborted' = TRUE
                  /\ UNCHANGED <<current, bound, lastCall, resources, pc>>
             ELSE /\ current' = FALSE
                  /\ bound' = FALSE
                  /\ lastCall' = "release"
                  /\ resources' = Free(Terminate(resources))
                  /\ pc' = "open_egeneric"
                  /\ UNCHANGED aborted
    /\ UNCHANGED <<poolVars, lock, context, index, output, consVars, histVars>>

\* GenBuffers, GenFramebuffers, GenTextures; for each slot: buffer storage,
\* framebuffer and texture, buffer_mapping = NULL, rc = 0;
\* sys->current_flip = BUFFER_COUNT - 1; BindDrawFramebuffer(sys)
OpenSetup ==
    /\ ~aborted
    /\ pc = "open_setup"
    /\ rc' = [i \in Slots |-> 0]
    /\ buffer_mapping' = [i \in Slots |-> FALSE]
    /\ mapped' = [i \in Slots |-> FALSE]
    /\ current_flip' = BUFFER_COUNT - 1
    /\ drawFb' = BUFFER_COUNT - 1
    /\ pc' = "open_release"
    /\ UNCHANGED <<eglVars, lock, context, index, output, aborted, consVars,
                   histVars>>

\* vlc_gl_ReleaseCurrent(gl): runs ReleaseCurrent; return VLC_SUCCESS
OpenRelease ==
    /\ ~aborted
    /\ pc = "open_release"
    /\ IF ~current
       THEN /\ aborted' = TRUE
            /\ UNCHANGED <<current, bound, lastCall, pc>>
       ELSE /\ current' = FALSE
            /\ bound' = FALSE
            /\ lastCall' = "release"
            /\ pc' = "idle"
            /\ UNCHANGED aborted
    /\ UNCHANGED <<poolVars, resources, lock, context, index, output,
                   consVars, histVars>>

OpenNext ==
    \/ OpenAlloc
    \/ InitEGL_GetDisplay
    \/ InitEGL_Initialize
    \/ InitEGL_ChooseConfig
    \/ InitEGL_CreateSurface
    \/ InitEGL_BindAPI
    \/ InitEGL_CreateContext
    \/ OpenMakeCurrent
    \/ OpenApiInit
    \/ OpenSetup
    \/ OpenRelease

\* The provider from before Open: Open, then the operations of Spec.
OpenSpec == InitOpen /\ [][OpenNext \/ Next]_vars

\* A successful Open ends in the initial state of Spec.
OpenSuccessIsInit == [][pc = "open_release" /\ pc' = "idle" => Init']_vars

\* An Open that returns an error has released everything it acquired and
\* leaves the context not current.
OpenErrorReturnsClean ==
    pc \in {"open_enomem", "open_egeneric"}
        => resources = {} /\ ~current /\ ~bound

(***************************************************************************)
(* C17.  Claim: whichever step of Open fails, Open returns an error        *)
(* instead of halting, with everything it acquired released and the        *)
(* context not current; a successful Open returns with the context not     *)
(* current, every rc = 0 and every buffer_mapping NULL.                    *)
(***************************************************************************)
C17_OpenFailsCleanly ==
    /\ pc \in OpenPcs => ~aborted
    /\ OpenErrorReturnsClean
    /\ (pc = "idle" /\ calls = 0 /\ lastCall = "release" /\ stage = "produce")
          => /\ ~current /\ ~bound
             /\ \A s \in Slots : rc[s] = 0 /\ ~buffer_mapping[s]

(***************************************************************************)
(* C18: whenever the producer is outside Swap, the slot current_flip has   *)
(* rc = 0, so the frames consumers hold are backed by at most              *)
(* BUFFER_COUNT - 1 slots; all BUFFER_COUNT counts are nonzero only while  *)
(* the producer is inside UpdateBuffer, before it has found a free slot.   *)
(***************************************************************************)
C18_OneSlotFreeWhenIdle ==
    /\ pc = "idle" => rc[current_flip] = 0
    /\ Cardinality({s \in Slots : held[s] > 0}) <= BUFFER_COUNT - 1
    /\ (\A s \in Slots : rc[s] # 0) => pc \in {"ub_lock", "scan", "wait", "woken"}

\* Three slots back frames the consumers hold, the fourth has been
\* incremented by the Swap call under way: the producer waits in
\* UpdateBuffer with every count nonzero.
C18_Witness ==
    /\ pc = "wait"
    /\ \A s \in Slots : rc[s] = 1
    /\ Cardinality({s \in Slots : held[s] > 0}) = BUFFER_COUNT - 1
    /\ held[context] = 0

(***************************************************************************)
(* C19: the count of a slot equals the number of references to its picture *)
(* context: the one of the picture Swap is about to return, those the      *)
(* consumers own (the returned picture and its copies), and those given up *)
(* whose picture_context_destroy has not decremented yet.                  *)
(* picture_context_copy changes only the count of its context, by +1, and  *)
(* hands back a reference to the same context; picture_context_destroy     *)
(* changes only the count of its context, by -1.                           *)
(***************************************************************************)
InFlight(s) ==
    IF pc \in {"ub_lock", "scan", "wait", "woken", "out_loop", "flip",
               "unbind", "package"} /\ context = s
    THEN 1 ELSE 0

PendingDestroy(s) ==
    Cardinality({c \in Consumers :
                    cpc[c] \in {"destroy_lock", "destroy_dec"} /\ cslot[c] = s})

C19_CountEqualsReferences ==
    /\ [](\A s \in Slots : rc[s] = InFlight(s) + held[s] + PendingDestroy(s))
    /\ [][\A c \in Consumers :
            /\ (cpc[c] = "copy_inc" /\ cpc'[c] = "idle")
                 => /\ rc' = [rc EXCEPT ![cslot[c]] = rc[cslot[c]] + 1]
                    /\ held' = [held EXCEPT ![cslot[c]] = held[cslot[c]] + 1]
            /\ (cpc[c] = "destroy_dec" /\ cpc'[c] = "idle")
                 => rc' = [rc EXCEPT ![cslot[c]] = rc[cslot[c]] - 1]]_vars

\* Slot 3 backs a frame that was copied: one reference is owned, the other
\* is being destroyed and still counted, while Swap is about to return
\* slot 0.
C19_Witness ==
    /\ rc[3] = 2
    /\ held[3] = 1
    /\ cpc["c1"] = "destroy_dec"
    /\ cslot["c1"] = 3
    /\ pc = "package"
    /\ context = 0
    /\ rc[0] = 1
    /\ held[0] = 0

(***************************************************************************)
(* C20: no step of a Swap call changes sys->current, whether Swap was      *)
(* entered with the context current or not.  Entered not current, Swap     *)
(* binds the EGL context itself, keeps it bound until UpdateBuffer has     *)
(* returned and unbinds it, the flag staying false.  When Swap returns the *)
(* flag is what the last MakeCurrent or ReleaseCurrent left, so a          *)
(* MakeCurrent right after Swap fails its assertion only if the caller's   *)
(* own earlier MakeCurrent is still outstanding.                           *)
(***************************************************************************)
C20_SwapKeepsCurrentFlag ==
    /\ [](pc = "idle" => (bound <=> current))
    /\ [](pc \in {"unmap", "readback", "inc", "ub_lock", "scan", "wait",
                  "woken", "out_loop", "flip", "unbind"} => bound)
    /\ [][/\ (pc # "idle" \/ pc' # "idle")
                => current' = current /\ lastCall' = lastCall
          /\ (pc = "idle" /\ pc' = "unmap" /\ ~current) => bound' /\ ~current'
          /\ (pc = "unbind" /\ pc' = "package" /\ ~current)
                => ~bound' /\ ~current'
          /\ (pc = "package" /\ pc' = "idle")
                => /\ current' <=> lastCall = "make_ok"
                   /\ bound' <=> current'
                   /\ ~aborted']_vars

\* A second Swap call, entered with the context not current, is inside
\* UpdateBuffer: the EGL context is bound and the flag is still false.
C20_Witness ==
    /\ pc = "flip"
    /\ context = 0
    /\ ~current
    /\ bound
    /\ lastCall = "release"

====
